---- MODULE Spec2Model ----
(***************************************************************************)
(* Model of the RISC-V (RV32IM) instruction-level simulator of             *)
(* src/src/simulate.h (struct Stat and simulate, with what it writes to    *)
(* its log and to stderr) and of the decoding done                         *)
(* by src/src/disassemble.c.                                               *)
(*                                                                         *)
(* A 32-bit word (uint32_t / int32_t) is represented by its two's          *)
(* complement value in -2^31 .. 2^31-1, so 0xFFFFFFFF is -1 and 0x80000000 *)
(* is INT32_MIN.  All arithmetic is done on 16-bit halves so that every    *)
(* intermediate value stays inside that range and wraps modulo 2^32 as the *)
(* C code does.                                                            *)
(***************************************************************************)
EXTENDS Integers, Sequences, FiniteSets, TLC

(***************************************************************************)
(* 32-bit word arithmetic                                                  *)
(***************************************************************************)
INT32_MIN == (0 - 2147483647) - 1

Word == INT32_MIN .. 2147483647

\* (uint32_t)(a + b): sum modulo 2^32.
AddW(a, b) ==
    LET lo == (a % 65536) + (b % 65536)
        hi == (a \div 65536) + (b \div 65536) + (lo \div 65536)
    IN  (((hi + 32768) % 65536) - 32768) * 65536 + (lo % 65536)

\* (uint32_t)(a - b): difference modulo 2^32.
SubW(a, b) ==
    LET lo == (a % 65536) - (b % 65536)
        hi == (a \div 65536) - (b \div 65536) + (lo \div 65536)
    IN  (((hi + 32768) % 65536) - 32768) * 65536 + (lo % 65536)

\* a < b on uint32_t operands.
ULt(a, b) == IF (a >= 0) = (b >= 0) THEN a < b ELSE b < 0

\* (x >> lo) & (2^n - 1) on a uint32_t, for lo + n <= 32 and n <= 30.
Bits(x, lo, n) ==
    IF lo = 31 THEN (IF x < 0 THEN 1 ELSE 0)
    ELSE (x \div (2 ^ lo)) % (2 ^ n)

\* Bitwise operators: bit by bit on each of the four bytes.
BitF(op, x, y) ==
    CASE op = "and" -> x * y
      [] op = "or"  -> IF x + y > 0 THEN 1 ELSE 0
      [] op = "xor" -> (x + y) % 2

RECURSIVE Bit8(_, _, _, _)
Bit8(op, x, y, n) ==
    IF n = 0 THEN 0
    ELSE BitF(op, x % 2, y % 2) + 2 * Bit8(op, x \div 2, y \div 2, n - 1)

BitW(op, a, b) ==
    LET b3 == Bit8(op, Bits(a, 24, 8), Bits(b, 24, 8), 8)
    IN    Bit8(op, Bits(a, 0, 8), Bits(b, 0, 8), 8)
        + 256 * Bit8(op, Bits(a, 8, 8), Bits(b, 8, 8), 8)
        + 65536 * Bit8(op, Bits(a, 16, 8), Bits(b, 16, 8), 8)
        + 16777216 * (IF b3 >= 128 THEN b3 - 256 ELSE b3)

AndW(a, b) == BitW("and", a, b)
OrW(a, b)  == BitW("or", a, b)
XorW(a, b) == BitW("xor", a, b)

\* a << n on a uint32_t, 0 <= n <= 31: the low 32 - n bits of a, read as a
\* signed number, times 2^n.
SllW(a, n) ==
    IF n = 0 THEN a
    ELSE IF n = 31 THEN (IF a % 2 = 1 THEN INT32_MIN ELSE 0)
    ELSE LET k == 31 - n
         IN  ((a % (2 ^ k)) - ((a \div (2 ^ k)) % 2) * (2 ^ k)) * (2 ^ n)

\* a >> n on a uint32_t (zero fill), 0 <= n <= 31.
SrlW(a, n) ==
    IF n = 0 THEN a
    ELSE IF n = 31 THEN (IF a < 0 THEN 1 ELSE 0)
    ELSE IF a >= 0 THEN a \div (2 ^ n)
    ELSE ((a \div (2 ^ n)) + ((2 ^ (31 - n)) - 1)) + (2 ^ (31 - n)) + 1

\* a >> n on an int32_t (sign fill, as gcc and clang compile it), 0 <= n <= 31.
SraW(a, n) ==
    IF n = 31 THEN (IF a < 0 THEN 0 - 1 ELSE 0) ELSE a \div (2 ^ n)

(***************************************************************************)
(* Immediate extraction (simulate.h 66-106, disassemble.c 15-54)           *)
(***************************************************************************)
\* v is the already shifted field, 0 <= v < 2^bits.
sign_extend(v, bits) ==
    LET m == 2 ^ (bits - 1)
    IN  IF (v \div m) % 2 = 1 THEN v - 2 * m ELSE v

imm_I(instruct) == sign_extend(Bits(instruct, 20, 12), 12)

imm_S(instruct) ==
    sign_extend(Bits(instruct, 25, 7) * 32 + Bits(instruct, 7, 5), 12)

imm_B(instruct) ==
    sign_extend(  Bits(instruct, 31, 1) * 4096
                + Bits(instruct, 25, 6) * 32
                + Bits(instruct, 8, 4) * 2
                + Bits(instruct, 7, 1) * 2048, 13)

imm_U(instruct) == instruct - (instruct % 4096)

imm_J(instruct) ==
    sign_extend(  Bits(instruct, 31, 1) * 1048576
                + Bits(instruct, 21, 10) * 2
                + Bits(instruct, 20, 1) * 2048
                + Bits(instruct, 12, 8) * 4096, 21)

(***************************************************************************)
(* Multiply, divide and remainder (simulate.h 119-153, 216-246)            *)
(***************************************************************************)
\* The product of two 16-bit numbers as <<high 16 bits, low 16 bits>>.
Mul16(x, y) ==
    LET p0 == x * (y % 256)
        p1 == x * (y \div 256)
        t  == p0 + (p1 % 256) * 256
    IN  <<(p1 \div 256) + (t \div 65536), t % 65536>>

\* The 64-bit product of two uint32_t as four 16-bit limbs, lowest first.
MulLimbs(a, b) ==
    LET a0  == a % 65536
        a1  == (a \div 65536) % 65536
        b0  == b % 65536
        b1  == (b \div 65536) % 65536
        p00 == Mul16(a0, b0)
        p01 == Mul16(a0, b1)
        p10 == Mul16(a1, b0)
        p11 == Mul16(a1, b1)
        t1  == p00[1] + p01[2] + p10[2]
        t2  == p01[1] + p10[1] + p11[2] + (t1 \div 65536)
        t3  == p11[1] + (t2 \div 65536)
    IN  <<p00[2], t1 % 65536, t2 % 65536, t3 % 65536>>

\* The uint32_t made of two 16-bit limbs.
OfLimbs(hi, lo) == (IF hi >= 32768 THEN hi - 65536 ELSE hi) * 65536 + lo

\* Low 32 bits of a * b (the same for signed and unsigned operands).
MulLoW(a, b) == LET l == MulLimbs(a, b) IN OfLimbs(l[2], l[1])

\* (uint32_t)(((uint64_t)a * (uint64_t)b) >> 32)
MulHU(a, b) == LET l == MulLimbs(a, b) IN OfLimbs(l[4], l[3])

\* High word of the signed x signed 64-bit product.
MulH(a, b) ==
    SubW(SubW(MulHU(a, b), IF a < 0 THEN b ELSE 0), IF b < 0 THEN a ELSE 0)

\* High word of the signed x unsigned product.
MulHSU(a, b) == SubW(MulHU(a, b), IF a < 0 THEN b ELSE 0)

\* C's a / b on int32_t (truncation toward zero), b # 0 and not INT32_MIN / -1.
TruncDiv(a, b) ==
    IF b = INT32_MIN THEN (IF a = INT32_MIN THEN 1 ELSE 0)
    ELSE LET d == IF b < 0 THEN 0 - b ELSE b
             q == IF a < 0 /\ a % d # 0 THEN (a \div d) + 1 ELSE a \div d
         IN  IF b < 0 THEN 0 - q ELSE q

\* A signed divide that answers 0 for a zero divisor.
div_s_ZeroQuotient(a, b) ==
    IF b = 0 THEN 0
    ELSE IF a = INT32_MIN /\ b = 0 - 1 THEN a
    ELSE TruncDiv(a, b)

div_s(a, b) ==
    IF b = 0 THEN 0 - 1
    ELSE IF a = INT32_MIN /\ b = 0 - 1 THEN a
    ELSE TruncDiv(a, b)

rem_s(a, b) ==
    IF b = 0 THEN a
    ELSE IF a = INT32_MIN /\ b = 0 - 1 THEN 0
    ELSE a - TruncDiv(a, b) * b

\* Quotient and remainder of uint32_t operands, b # 0.
UDivMod(a, b) ==
    IF b < 0 THEN (IF ULt(a, b) THEN <<0, a>> ELSE <<1, SubW(a, b)>>)
    ELSE IF a >= 0 THEN <<a \div b, a % b>>
    ELSE LET h  == SrlW(a, 1)
             l  == a % 2
             q0 == h \div b
             r0 == h % b
             ge == r0 >= b - r0 - l
         IN  IF ge THEN <<AddW(AddW(q0, q0), 1), r0 - (b - r0 - l)>>
             ELSE <<AddW(q0, q0), 2 * r0 + l>>

div_u(a, b) == IF b = 0 THEN 0 - 1 ELSE UDivMod(a, b)[1]

rem_u(a, b) == IF b = 0 THEN a ELSE UDivMod(a, b)[2]

(***************************************************************************)
(* The memory collaborator (memory.h is not part of the sources): a byte   *)
(* addressable store, little endian, every byte zero until it is written,  *)
(* with no fault policy of its own.                                        *)
(***************************************************************************)
memory_rd_b(m, addr) == IF addr \in DOMAIN m THEN m[addr] ELSE 0

memory_rd_h(m, addr) ==
    memory_rd_b(m, addr) + 256 * memory_rd_b(m, AddW(addr, 1))

memory_rd_w(m, addr) ==
    LET b3 == memory_rd_b(m, AddW(addr, 3))
    IN    memory_rd_b(m, addr)
        + 256 * memory_rd_b(m, AddW(addr, 1))
        + 65536 * memory_rd_b(m, AddW(addr, 2))
        + 16777216 * (IF b3 >= 128 THEN b3 - 256 ELSE b3)

memory_wr_b(m, addr, value) ==
    [x \in DOMAIN m \cup {addr} |-> IF x = addr THEN value % 256 ELSE m[x]]

memory_wr_h(m, addr, value) ==
    memory_wr_b(memory_wr_b(m, addr, value), AddW(addr, 1), value \div 256)

memory_wr_w(m, addr, value) ==
    memory_wr_h(memory_wr_h(m, addr, value % 65536),
                AddW(addr, 2), (value \div 65536) % 65536)

(***************************************************************************)
(* Instruction fields (simulate.h 189-195, disassemble.c 72-77)            *)
(***************************************************************************)
opcode(instruct) == instruct % 128
rd(instruct)     == Bits(instruct, 7, 5)
funct3(instruct) == Bits(instruct, 12, 3)
rs1(instruct)    == Bits(instruct, 15, 5)
rs2(instruct)    == Bits(instruct, 20, 5)
funct7(instruct) == Bits(instruct, 25, 7)

\* The bare trap instruction, 0x00000073.
ECALL == 115

(***************************************************************************)
(* The disassembler (disassemble.c).  Its sign_extend and imm_* helpers    *)
(* are line for line those of simulate.h.  The text it renders is kept as  *)
(* the tuple of the mnemonic and the arguments of the format string, in    *)
(* the order they are printed.                                             *)
(***************************************************************************)
regname ==
    << "zero", "ra", "sp", "gp", "tp", "t0", "t1", "t2",
       "s0", "s1", "a0", "a1", "a2", "a3", "a4", "a5",
       "a6", "a7", "s2", "s3", "s4", "s5", "s6", "s7",
       "s8", "s9", "s10", "s11", "t3", "t4", "t5", "t6" >>

\* regname[r] of the C array, r in 0 .. 31.
RegName(r) == regname[r + 1]

\* case 0x33 with funct7 == 0x01
DisMulDiv(f3) ==
    CASE f3 = 0 -> "mul"
      [] f3 = 1 -> "mulh"
      [] f3 = 2 -> "mulhsu"
      [] f3 = 3 -> "mulhu"
      [] f3 = 4 -> "div"
      [] f3 = 5 -> "divu"
      [] f3 = 6 -> "rem"
      [] f3 = 7 -> "remu"

\* case 0x33, the standard R-type chain of if / else if
DisRType(f3, f7) ==
    IF f3 = 0 /\ f7 = 32 THEN "sub"
    ELSE IF f3 = 0 THEN "add"
    ELSE IF f3 = 1 THEN "sll"
    ELSE IF f3 = 2 THEN "slt"
    ELSE IF f3 = 3 THEN "sltu"
    ELSE IF f3 = 4 THEN "xor"
    ELSE IF f3 = 5 /\ f7 = 32 THEN "sra"
    ELSE IF f3 = 5 THEN "srl"
    ELSE IF f3 = 6 THEN "or"
    ELSE IF f3 = 7 THEN "and"
    ELSE "unknown"

\* case 0x13, the immediate forms that are not shifts
DisIType(f3) ==
    CASE f3 = 0 -> "addi"
      [] f3 = 2 -> "slti"
      [] f3 = 3 -> "sltiu"
      [] f3 = 4 -> "xori"
      [] f3 = 6 -> "ori"
      [] f3 = 7 -> "andi"
      [] OTHER  -> "unknown"

\* case 0x03
DisLoad(f3) ==
    CASE f3 = 0 -> "lb"
      [] f3 = 1 -> "lh"
      [] f3 = 2 -> "lw"
      [] f3 = 4 -> "lbu"
      [] f3 = 5 -> "lhu"
      [] OTHER  -> "unknown"

\* case 0x23
DisStore(f3) ==
    CASE f3 = 0 -> "sb"
      [] f3 = 1 -> "sh"
      [] f3 = 2 -> "sw"
      [] OTHER  -> "unknown"

\* case 0x63
DisBranch(f3) ==
    CASE f3 = 0 -> "beq"
      [] f3 = 1 -> "bne"
      [] f3 = 4 -> "blt"
      [] f3 = 5 -> "bge"
      [] f3 = 6 -> "bltu"
      [] f3 = 7 -> "bgeu"
      [] OTHER  -> "unknown"

\* A mnemonic with its arguments, or the bare "unknown".
Render(mnemonic, args) ==
    IF mnemonic = "unknown" THEN <<"unknown">> ELSE <<mnemonic>> \o args

\* disassemble(addr, instruction, result, buf_size, symbols): what is left
\* in result.
disassemble(addr, i) ==
    LET op == opcode(i)
        d  == RegName(rd(i))
        r1 == RegName(rs1(i))
        r2 == RegName(rs2(i))
        f3 == funct3(i)
        f7 == funct7(i)
    IN  CASE op = 51 ->
               IF f7 = 1 THEN Render(DisMulDiv(f3), <<d, r1, r2>>)
               ELSE Render(DisRType(f3, f7), <<d, r1, r2>>)
          [] op = 19 ->
               IF f3 = 1 THEN <<"slli", d, r1, Bits(i, 20, 5)>>
               ELSE IF f3 = 5
                    THEN IF Bits(i, 25, 7) # 0
                         THEN <<"srai", d, r1, Bits(i, 20, 5)>>
                         ELSE <<"srli", d, r1, Bits(i, 20, 5)>>
               ELSE Render(DisIType(f3), <<d, r1, imm_I(i)>>)
          [] op = 3 -> Render(DisLoad(f3), <<d, imm_I(i), r1>>)
          [] op = 35 -> Render(DisStore(f3), <<r2, imm_S(i), r1>>)
          [] op = 99 -> Render(DisBranch(f3), <<r1, r2, AddW(addr, imm_B(i))>>)
          [] op = 111 -> <<"jal", d, AddW(addr, imm_J(i))>>
          [] op = 103 -> <<"jalr", d, imm_I(i), r1>>
          [] op = 55 -> <<"lui", d, imm_U(i)>>
          [] op = 23 -> <<"auipc", d, AddW(addr, imm_U(i))>>
          [] op = 115 -> IF i = ECALL THEN <<"ecall">> ELSE <<"unknown">>
          [] OTHER -> <<"unknown">>

(***************************************************************************)
(* Bounds of the model and the programs it runs                            *)
(***************************************************************************)
\* Number of instruction words of the program image.
ProgLen == 3
\* No run fetches more than MaxSteps instructions.
MaxSteps == 6

\* Load address of the program and start address of the run.
Base == 2 ^ 2

\* Encoders of instruction words (the inverse of the field extraction).
Hi7(f7) == (IF f7 >= 64 THEN f7 - 128 ELSE f7) * 33554432

EncR(f7, r2, r1, f3, d, op) ==
    Hi7(f7) + r2 * 1048576 + r1 * 32768 + f3 * 4096 + d * 128 + op

EncI(imm, r1, f3, d, op) ==
    imm * 1048576 + r1 * 32768 + f3 * 4096 + d * 128 + op

EncS(imm, r2, r1, f3, op) ==
    EncR((imm % 4096) \div 32, r2, r1, f3, imm % 32, op)

EncB(imm, r2, r1, f3) ==
    LET u == imm % 8192
    IN  EncR((u \div 4096) * 64 + ((u \div 32) % 64), r2, r1, f3,
             ((u \div 2) % 16) * 2 + ((u \div 2048) % 2), 99)

EncU(imm20, d, op) ==
    (IF imm20 >= 524288 THEN imm20 - 1048576 ELSE imm20) * 4096 + d * 128 + op

EncJ(imm, d) ==
    LET u == imm % 2097152
    IN  EncU((u \div 1048576) * 524288 + ((u \div 2) % 1024) * 512
             + ((u \div 2048) % 2) * 256 + ((u \div 4096) % 256), d, 111)

\* The instruction words programs are built from.
Pool ==
    { EncI(5, 0, 0, 10, 19),          \* addi a0,zero,5
      EncI(93, 0, 0, 17, 19),         \* addi a7,zero,93
      ECALL,                          \* ecall
      EncI(1, 0, 0, 17, 19),          \* addi a7,zero,1
      EncI(2, 0, 0, 17, 19),          \* addi a7,zero,2
      EncI(3, 0, 0, 17, 19),          \* addi a7,zero,3
      EncR(0, 10, 10, 0, 0, 51),      \* add zero,a0,a0
      EncI(4, 0, 2, 0, 3),            \* lw zero,4(zero)
      EncS(0 - 4, 10, 0, 0, 35),      \* sb a0,-4(zero)
      EncB(0, 0, 0, 0),               \* beq zero,zero,.
      EncB(8, 10, 0, 1),              \* bne zero,a0,.+8
      EncB(0 - 6, 17, 10, 5),         \* bge a0,a7,.-6
      EncJ(6, 0),                     \* jal zero,.+6
      EncI(2, 10, 0, 0, 103),         \* jalr zero,2(a0)
      EncU(524288, 0, 55),            \* lui zero,0x80000
      EncU(1, 0, 23),                 \* auipc zero,0x1
      EncI(1, 0, 0, 0, 115),          \* ebreak (a system word that is not ecall)
      0 - 1 }                         \* 0xffffffff (no known opcode)

Programs == [1 .. ProgLen -> Pool]

\* The words of the programs that exercise jal and jalr.
JumpPool ==
    { EncI(1, 0, 0, 17, 19),          \* addi a7,zero,1
      EncI(2, 0, 0, 17, 19),          \* addi a7,zero,2
      ECALL,                          \* ecall
      EncI(1, 0, 0, 0, 115),          \* ebreak
      EncR(0, 1, 1, 0, 1, 51),        \* add ra,ra,ra
      EncI(4, 0, 2, 1, 3),            \* lw ra,4(zero)
      EncS(16, 17, 0, 0, 35),         \* sb a7,16(zero)
      EncU(524288, 1, 55),            \* lui ra,0x80000
      EncU(0, 1, 23),                 \* auipc ra,0x0
      EncB(8, 0, 0, 0),               \* beq zero,zero,.+8
      EncJ(8, 1),                     \* jal ra,.+8
      EncJ(0 - 4, 0),                 \* jal zero,.-4
      EncJ(0 - 8, 10),                \* jal a0,.-8
      EncI(8, 1, 0, 1, 103),          \* jalr ra,8(ra)
      EncI(7, 1, 0, 0, 103),          \* jalr zero,7(ra)
      EncI(0 - 3, 10, 0, 1, 103) }    \* jalr ra,-3(a0)

JumpPrograms == [1 .. ProgLen -> JumpPool]

\* The words of the programs that exercise divide and remainder.
DivPool ==
    { EncU(524288, 10, 55),           \* lui a0,0x80000
      EncI(0 - 1, 0, 0, 11, 19),      \* addi a1,zero,-1
      EncI(0 - 7, 0, 0, 10, 19),      \* addi a0,zero,-7
      EncR(1, 11, 10, 4, 12, 51),     \* div a2,a0,a1
      EncR(1, 11, 10, 5, 12, 51),     \* divu a2,a0,a1
      EncR(1, 11, 10, 6, 12, 51),     \* rem a2,a0,a1
      EncR(1, 11, 10, 7, 12, 51),     \* remu a2,a0,a1
      EncI(1, 0, 0, 17, 19),          \* addi a7,zero,1
      EncI(2, 0, 0, 17, 19),          \* addi a7,zero,2
      ECALL,                          \* ecall
      EncI(1, 0, 0, 0, 115),          \* ebreak
      EncI(4, 0, 2, 11, 3),           \* lw a1,4(zero)
      EncS(16, 12, 0, 2, 35),         \* sw a2,16(zero)
      EncB(8, 12, 10, 1),             \* bne a0,a2,.+8
      EncJ(8, 11),                    \* jal a1,.+8
      EncI(4, 12, 0, 0, 103),         \* jalr zero,4(a2)
      EncU(0, 10, 23) }               \* auipc a0,0x0

DivPrograms == [1 .. ProgLen -> DivPool]

\* The words of the programs that are run with a log: words of every
\* opcode, with function-selects the decoders know and ones they do not.
DecodePool ==
    { EncI(5, 0, 0, 10, 19),          \* addi a0,zero,5
      EncI(1, 0, 0, 17, 19),          \* addi a7,zero,1
      EncI(2, 0, 0, 17, 19),          \* addi a7,zero,2
      ECALL,                          \* ecall
      EncI(1, 0, 0, 0, 115),          \* ebreak
      EncR(0, 10, 10, 0, 11, 51),     \* add a1,a0,a0
      EncR(32, 10, 11, 0, 11, 51),    \* sub a1,a1,a0
      EncR(2, 10, 10, 0, 10, 51),     \* funct3 0, funct7 0x02, fields a0,a0,a0
      EncR(2, 10, 10, 5, 10, 51),     \* funct3 5, funct7 0x02, fields a0,a0,a0
      EncR(2, 10, 10, 4, 11, 51),     \* funct3 4 (xor), funct7 0x02
      EncI(1025, 10, 5, 11, 19),      \* srai a1,a0,1
      EncI(4, 0, 2, 11, 3),           \* lw a1,4(zero)
      EncI(4, 0, 3, 11, 3),           \* load with funct3 3
      EncS(16, 10, 0, 2, 35),         \* sw a0,16(zero)
      EncS(16, 10, 0, 3, 35),         \* store with funct3 3
      EncB(8, 0, 10, 1),              \* bne a0,zero,.+8
      EncB(8, 0, 10, 2),              \* branch with funct3 2
      EncJ(8, 1),                     \* jal ra,.+8
      EncI(4, 10, 0, 1, 103),         \* jalr ra,4(a0)
      EncU(524288, 10, 55),           \* lui a0,0x80000
      EncU(1, 11, 23) }               \* auipc a1,0x1

DecodePrograms == [1 .. ProgLen -> DecodePool]

\* The words of the programs that exercise the conditional branches.
BranchPool ==
    { EncI(1, 0, 0, 17, 19),          \* addi a7,zero,1
      EncI(2, 0, 0, 17, 19),          \* addi a7,zero,2
      ECALL,                          \* ecall
      EncI(1, 0, 0, 0, 115),          \* ebreak
      EncU(524288, 10, 55),           \* lui a0,0x80000
      EncR(32, 17, 0, 0, 10, 51),     \* sub a0,zero,a7
      EncI(4, 0, 2, 10, 3),           \* lw a0,4(zero)
      EncS(16, 17, 0, 0, 35),         \* sb a7,16(zero)
      EncU(0, 10, 23),                \* auipc a0,0x0
      EncJ(8, 0),                     \* jal zero,.+8
      EncI(4, 10, 0, 0, 103),         \* jalr zero,4(a0)
      EncB(8, 17, 10, 0),             \* beq a0,a7,.+8
      EncB(0 - 4, 17, 10, 1),         \* bne a0,a7,.-4
      EncB(8, 17, 10, 4),             \* blt a0,a7,.+8
      EncB(0 - 4, 17, 10, 5),         \* bge a0,a7,.-4
      EncB(8, 17, 10, 6),             \* bltu a0,a7,.+8
      EncB(0 - 4, 17, 10, 7),         \* bgeu a0,a7,.-4
      EncB(8, 17, 10, 2) }            \* branch with funct3 2

BranchPrograms == [1 .. ProgLen -> BranchPool]

\* The words of the programs that hold unsupported function-selects.
UnsupportedPool ==
    { EncI(1, 0, 0, 17, 19),          \* addi a7,zero,1
      EncI(2, 0, 0, 17, 19),          \* addi a7,zero,2
      ECALL,                          \* ecall
      EncI(1, 0, 0, 0, 115),          \* ebreak
      EncB(8, 0, 11, 0),              \* beq a1,zero,.+8
      EncJ(8, 11),                    \* jal a1,.+8
      EncI(4, 11, 0, 0, 103),         \* jalr zero,4(a1)
      EncU(524288, 11, 55),           \* lui a1,0x80000
      EncU(0, 11, 23),                \* auipc a1,0x0
      EncI(4, 0, 3, 11, 3),           \* load, funct3 3: a1,4(zero)
      EncI(4, 0, 6, 11, 3),           \* load, funct3 6
      EncI(4, 0, 7, 11, 3),           \* load, funct3 7
      EncS(8, 17, 0, 3, 35),          \* store, funct3 3: a7,8(zero)
      EncS(8, 17, 0, 4, 35),          \* store, funct3 4
      EncS(8, 17, 0, 5, 35),          \* store, funct3 5
      EncS(8, 17, 0, 6, 35),          \* store, funct3 6
      EncS(8, 17, 0, 7, 35),          \* store, funct3 7
      EncR(2, 17, 17, 0, 11, 51),     \* R-type, funct3 0, funct7 0x02: a1,a7,a7
      EncR(33, 17, 17, 0, 11, 51),    \* R-type, funct3 0, funct7 0x21
      EncR(127, 17, 11, 5, 11, 51) }  \* R-type, funct3 5, funct7 0x7f: a1,a1,a7

UnsupportedPrograms == [1 .. ProgLen -> UnsupportedPool]

\* The words of the programs that are run twice, with and without a log.
PairPool ==
    { EncI(1, 0, 0, 17, 19),          \* addi a7,zero,1
      EncI(2, 0, 0, 17, 19),          \* addi a7,zero,2
      ECALL,                          \* ecall
      EncI(1, 0, 0, 0, 115),          \* ebreak
      EncR(0, 17, 10, 0, 10, 51),     \* add a0,a0,a7
      EncI(4, 0, 2, 10, 3),           \* lw a0,4(zero)
      EncS(8, 17, 0, 2, 35),          \* sw a7,8(zero)
      EncB(8, 0, 10, 0),              \* beq a0,zero,.+8
      EncB(0 - 4, 0, 17, 1),          \* bne a7,zero,.-4
      EncJ(8, 1),                     \* jal ra,.+8
      EncI(4, 1, 0, 0, 103),          \* jalr zero,4(ra)
      EncU(1, 10, 55),                \* lui a0,0x1
      EncU(0, 10, 23),                \* auipc a0,0x0
      0 - 1 }                         \* 0xffffffff

PairPrograms == [1 .. ProgLen -> PairPool]

\* The memory image holding program p at Base.
LoadImage(p) ==
    [a \in Base .. (Base + 4 * ProgLen - 1) |->
        LET w == p[((a - Base) \div 4) + 1]
        IN  (w \div (2 ^ (8 * ((a - Base) % 4)))) % 256]

\* What getchar() can return: EOF (-1) or an unsigned char.
GetcharResults == {0 - 1, 0, 65, 255}

\* struct Stat stats is a local of simulate: until a field is assigned it
\* holds the words the stack held where the call placed it.  A frame names
\* what one call finds there: two calls with the same frame find the same
\* words, two calls with different frames find words nothing relates.
FirstFrame == "stack found by the first call"

Frames == {FirstFrame, "stack found by a later call"}

\* A long of struct Stat: the word slot b of array a held in frame f (no
\* word, <<>>, once the field has been assigned), plus what was added to
\* it.  Two longs are the same value when the records are equal; the words
\* of different slots or frames are not known to be equal.
StackWord(f, a, b) == [stack |-> <<f, a, b>>, plus |-> 0]

(***************************************************************************)
(* State of one run of simulate                                            *)
(***************************************************************************)
VARIABLES
    R,              \* uint32_t R[32]
    PC,             \* uint32_t PC
    instr_count,    \* long instr_count
    stats,          \* struct Stat stats
    stop,           \* int stop
    mem,            \* struct memory *mem: byte address -> byte
    output,         \* bytes written to stdout by putchar
    instruction,    \* word fetched by the last iteration of the loop
    current_pc,     \* address that word was fetched at
    branch_taken,   \* branch_taken of the last iteration
    phase,          \* "loop" inside while(!stop), "returned" after return stats
    log_file,       \* FILE *log_file: TRUE for a log sink, FALSE for NULL
    log,            \* the lines written to log_file
    stderr,         \* the lines this call has written to stderr
    trace,          \* history: <<PC, R, mem>> at every fetch of this run
    first_run       \* history: the finished earlier run of a pair, if any

vars == <<R, PC, instr_count, stats, stop, mem, output, instruction,
          current_pc, branch_taken, phase, log_file, log, stderr, trace,
          first_run>>

\* struct Stat after lines 171-178: insns and the NT and BTFNT counters are
\* set to 0; the sixteen slots of the bimodal and gshare arrays are not
\* assigned, and each holds the word of frame f it was placed on.
StatInit(f) ==
    [ insns                  |-> 0,
      nt_predictions         |-> 0,
      nt_mispredictions      |-> 0,
      btfnt_predictions      |-> 0,
      btfnt_mispredictions   |-> 0,
      bimodal_predictions    |->
          [b \in 0 .. 3 |-> StackWord(f, "bimodal_predictions", b)],
      bimodal_mispredictions |->
          [b \in 0 .. 3 |-> StackWord(f, "bimodal_mispredictions", b)],
      gshare_predictions     |->
          [b \in 0 .. 3 |-> StackWord(f, "gshare_predictions", b)],
      gshare_mispredictions  |->
          [b \in 0 .. 3 |-> StackWord(f, "gshare_mispredictions", b)] ]

\* if (log_file) fprintf(log_file, "Simulator logging enabled\n")
LogOpened(sink) == IF sink THEN <<(<<"Simulator logging enabled">>)>> ELSE <<>>

\* else fprintf(stderr, "Simulator logging disabled\n")
LogDisabled(sink) ==
    IF sink THEN <<>> ELSE <<(<<"Simulator logging disabled">>)>>

\* simulate is entered on the image of one of programs, with one of sinks as
\* log_file.
InitLogged(programs, sinks) ==
    /\ R = [r \in 0 .. 31 |-> 0]
    /\ PC = Base
    /\ instr_count = 0
    /\ stats = StatInit(FirstFrame)
    /\ stop = FALSE
    /\ \E p \in programs : mem = LoadImage(p)
    /\ output = <<>>
    /\ instruction = 0
    /\ current_pc = 0
    /\ branch_taken = FALSE
    /\ phase = "loop"
    /\ log_file \in sinks
    /\ log = LogOpened(log_file)
    /\ stderr = LogDisabled(log_file)
    /\ trace = <<>>
    /\ first_run = <<>>

\* simulate without a log sink.
InitWith(programs) == InitLogged(programs, {FALSE})

Init == InitWith(Programs)

(***************************************************************************)
(* One iteration of the loop                                               *)
(***************************************************************************)
\* memory_rd_w(mem, PC) of the fetch
Fetched == memory_rd_w(mem, PC)

\* while(!stop) is entered and the fetched word has opcode op.
Running(op) ==
    /\ phase = "loop"
    /\ ~stop
    /\ instr_count < MaxSteps
    /\ opcode(Fetched) = op

\* The loop without line 617.
ForceX0_Skipped(Rn) == Rn

\* R[0] = 0 after the switch.
ForceX0(Rn) == [Rn EXCEPT ![0] = 0]

\* The tail of the loop body: x0, PC = next_pc, stats.insns = instr_count.
Retire(Rn, next_pc, taken, st) ==
    /\ R' = ForceX0(Rn)
    /\ PC' = next_pc
    /\ instr_count' = instr_count + 1
    /\ stats' = [st EXCEPT !.insns = instr_count + 1]
    /\ instruction' = Fetched
    /\ current_pc' = PC
    /\ branch_taken' = taken
    /\ trace' = Append(trace, <<PC, R, mem>>)
    /\ UNCHANGED <<log_file, first_run>>

\* log_reg_write(log, rd, value), log not NULL: the line printed.
log_reg_write(d, value) ==
    IF d # 0 THEN <<(<<"Register write", d, value>>)>>
    ELSE <<(<<"Ignored write to x0">>)>>

\* log_mem_write(log, addr, value), log not NULL: the line printed.
log_mem_write(addr, value) == <<(<<"Memory write", addr, value>>)>>

\* The line of the instruction: count, address, word, disassem_buf and
\* whether " {T}" follows.
InsnLine(taken) ==
    <<"=>", instr_count + 1, PC, Fetched, disassemble(PC, Fetched), taken>>

\* What one iteration writes to stderr: the lines of the fprintf(stderr, ...)
\* it reaches inside the switch.
Reported(lines) == stderr' = stderr \o lines

\* What one iteration adds to the log: the lines of the writes made inside
\* the switch (events), then the line of the instruction; nothing when
\* log_file is NULL.
Logged(events, taken) ==
    log' = IF log_file THEN (log \o events) \o <<InsnLine(taken)>> ELSE log

\* R[rd] = value
WriteReg(Rg, d, value) == [Rg EXCEPT ![d] = value]

\* case 0x33, funct7 == 0x01: the multiply/divide extension.
MExt(f3, a, b) ==
    CASE f3 = 0 -> MulLoW(a, b)
      [] f3 = 1 -> MulH(a, b)
      [] f3 = 2 -> MulHSU(a, b)
      [] f3 = 3 -> MulHU(a, b)
      [] f3 = 4 -> div_s(a, b)
      [] f3 = 5 -> div_u(a, b)
      [] f3 = 6 -> rem_s(a, b)
      [] f3 = 7 -> rem_u(a, b)

\* An R-type case that selects add and srl whenever funct7 is not 0x20.
RTypeExec_AnyFunct7(Rg, i) ==
    LET a  == Rg[rs1(i)]
        b  == Rg[rs2(i)]
        f3 == funct3(i)
        f7 == funct7(i)
        d  == rd(i)
    IN  IF f7 = 1 THEN WriteReg(Rg, d, MExt(f3, a, b))
        ELSE CASE f3 = 0 -> IF f7 = 32 THEN WriteReg(Rg, d, SubW(a, b))
                            ELSE WriteReg(Rg, d, AddW(a, b))
               [] f3 = 1 -> WriteReg(Rg, d, SllW(a, b % 32))
               [] f3 = 2 -> WriteReg(Rg, d, IF a < b THEN 1 ELSE 0)
               [] f3 = 3 -> WriteReg(Rg, d, IF ULt(a, b) THEN 1 ELSE 0)
               [] f3 = 4 -> WriteReg(Rg, d, XorW(a, b))
               [] f3 = 5 -> IF f7 = 32 THEN WriteReg(Rg, d, SraW(a, b % 32))
                            ELSE WriteReg(Rg, d, SrlW(a, b % 32))
               [] f3 = 6 -> WriteReg(Rg, d, OrW(a, b))
               [] f3 = 7 -> WriteReg(Rg, d, AndW(a, b))

\* case 0x33: the registers after the instruction.
RTypeExec(Rg, i) ==
    LET a  == Rg[rs1(i)]
        b  == Rg[rs2(i)]
        f3 == funct3(i)
        f7 == funct7(i)
        d  == rd(i)
    IN  IF f7 = 1 THEN WriteReg(Rg, d, MExt(f3, a, b))
        ELSE CASE f3 = 0 -> IF f7 = 0 THEN WriteReg(Rg, d, AddW(a, b))
                            ELSE IF f7 = 32 THEN WriteReg(Rg, d, SubW(a, b))
                            ELSE Rg
               [] f3 = 1 -> WriteReg(Rg, d, SllW(a, b % 32))
               [] f3 = 2 -> WriteReg(Rg, d, IF a < b THEN 1 ELSE 0)
               [] f3 = 3 -> WriteReg(Rg, d, IF ULt(a, b) THEN 1 ELSE 0)
               [] f3 = 4 -> WriteReg(Rg, d, XorW(a, b))
               [] f3 = 5 -> IF f7 = 0 THEN WriteReg(Rg, d, SrlW(a, b % 32))
                            ELSE IF f7 = 32 THEN WriteReg(Rg, d, SraW(a, b % 32))
                            ELSE Rg
               [] f3 = 6 -> WriteReg(Rg, d, OrW(a, b))
               [] f3 = 7 -> WriteReg(Rg, d, AndW(a, b))

\* case 0x33, case 0x0 of funct3: fprintf(stderr, "Unknown funct7: 0x%x\n",
\* funct7) when funct7 is none of 0x01, 0x00, 0x20; no other case reports.
RTypeReports(i) ==
    IF funct7(i) # 1 /\ funct3(i) = 0 /\ funct7(i) \notin {0, 32}
    THEN <<(<<"Unknown funct7", funct7(i)>>)>>
    ELSE <<>>

\* case 0x33: the word reaches an assignment of R[rd].
RTypeWrites(i) ==
    funct7(i) = 1 \/ funct3(i) \notin {0, 5} \/ funct7(i) \in {0, 32}

\* case 0x13: the registers after the instruction.
ITypeExec(Rg, i) ==
    LET a     == Rg[rs1(i)]
        imm   == imm_I(i)
        f3    == funct3(i)
        shamt == Bits(i, 20, 5)
        d     == rd(i)
    IN  CASE f3 = 0 -> WriteReg(Rg, d, AddW(a, imm))
          [] f3 = 1 -> WriteReg(Rg, d, SllW(a, shamt))
          [] f3 = 2 -> WriteReg(Rg, d, IF a < imm THEN 1 ELSE 0)
          [] f3 = 3 -> WriteReg(Rg, d, IF ULt(a, imm) THEN 1 ELSE 0)
          [] f3 = 4 -> WriteReg(Rg, d, XorW(a, imm))
          [] f3 = 5 -> IF Bits(i, 25, 7) = 0
                       THEN WriteReg(Rg, d, SrlW(a, shamt))
                       ELSE WriteReg(Rg, d, SraW(a, shamt))
          [] f3 = 6 -> WriteReg(Rg, d, OrW(a, imm))
          [] f3 = 7 -> WriteReg(Rg, d, AndW(a, imm))

\* case 0x03: the registers after the load.
LoadExec(Rg, m, i) ==
    LET addr == AddW(Rg[rs1(i)], imm_I(i))
        f3   == funct3(i)
        d    == rd(i)
    IN  CASE f3 = 0 -> WriteReg(Rg, d, sign_extend(memory_rd_b(m, addr), 8))
          [] f3 = 1 -> WriteReg(Rg, d, sign_extend(memory_rd_h(m, addr), 16))
          [] f3 = 2 -> WriteReg(Rg, d, memory_rd_w(m, addr))
          [] f3 = 4 -> WriteReg(Rg, d, memory_rd_b(m, addr))
          [] f3 = 5 -> WriteReg(Rg, d, memory_rd_h(m, addr))
          [] OTHER  -> Rg

\* case 0x03: the word reaches an assignment of R[rd].
LoadWrites(i) == funct3(i) \in {0, 1, 2, 4, 5}

\* case 0x23: the value handed to memory_wr_* and log_mem_write.
StoreValue(Rg, i) ==
    CASE funct3(i) = 0 -> Rg[rs2(i)] % 256
      [] funct3(i) = 1 -> Rg[rs2(i)] % 65536
      [] OTHER         -> Rg[rs2(i)]

\* case 0x23: the word reaches a memory write.
StoreWrites(i) == funct3(i) \in {0, 1, 2}

\* case 0x23: the memory after the store.
StoreExec(Rg, m, i) ==
    LET addr == AddW(Rg[rs1(i)], imm_S(i))
        f3   == funct3(i)
        v    == Rg[rs2(i)]
    IN  CASE f3 = 0 -> memory_wr_b(m, addr, v % 256)
          [] f3 = 1 -> memory_wr_h(m, addr, v % 65536)
          [] f3 = 2 -> memory_wr_w(m, addr, v)
          [] OTHER  -> m

\* case 0x63: the branch condition (take).
BranchTake(f3, a, b) ==
    CASE f3 = 0 -> a = b
      [] f3 = 1 -> a # b
      [] f3 = 4 -> a < b
      [] f3 = 5 -> a >= b
      [] f3 = 6 -> ULt(a, b)
      [] f3 = 7 -> ~ULt(a, b)
      [] OTHER  -> FALSE

\* The comparison made on int32_t instead of uint32_t.
BtfntPredTaken_Signed(target, pc) == target < pc

\* btfnt_pred_taken = (target < current_pc), on uint32_t.
BtfntPredTaken(target, pc) == ULt(target, pc)

\* The predictor counters after a conditional branch.
BranchStats(st, taken, btfnt_pred_taken) ==
    [st EXCEPT
        !.nt_predictions       = @ + 1,
        !.btfnt_predictions    = @ + 1,
        !.nt_mispredictions    = IF taken THEN @ + 1 ELSE @,
        !.btfnt_mispredictions = IF btfnt_pred_taken # taken THEN @ + 1 ELSE @]

\* jalr: (R[rs1] + imm) & ~1u
JalrTarget(base, imm) ==
    LET t == AddW(base, imm) IN t - (t % 2)

(***************************************************************************)
(* The actions: one per case of switch (opcode)                            *)
(***************************************************************************)
ExecRType ==
    /\ Running(51)
    /\ Retire(RTypeExec(R, Fetched), AddW(PC, 4), FALSE, stats)
    /\ UNCHANGED <<stop, mem, output, phase>>
    /\ Reported(RTypeReports(Fetched))
    /\ Logged(IF RTypeWrites(Fetched)
              THEN log_reg_write(rd(Fetched), RTypeExec(R, Fetched)[rd(Fetched)])
              ELSE <<>>, FALSE)

ExecIType ==
    /\ Running(19)
    /\ Retire(ITypeExec(R, Fetched), AddW(PC, 4), FALSE, stats)
    /\ UNCHANGED <<stop, mem, output, phase>>
    /\ Reported(<<>>)
    /\ Logged(log_reg_write(rd(Fetched), ITypeExec(R, Fetched)[rd(Fetched)]), FALSE)

ExecLoad ==
    /\ Running(3)
    /\ Retire(LoadExec(R, mem, Fetched), AddW(PC, 4), FALSE, stats)
    /\ UNCHANGED <<stop, mem, output, phase>>
    /\ Reported(<<>>)
    /\ Logged(IF LoadWrites(Fetched)
              THEN log_reg_write(rd(Fetched), LoadExec(R, mem, Fetched)[rd(Fetched)])
              ELSE <<>>, FALSE)

ExecStore ==
    /\ Running(35)
    /\ mem' = StoreExec(R, mem, Fetched)
    /\ Retire(R, AddW(PC, 4), FALSE, stats)
    /\ UNCHANGED <<stop, output, phase>>
    /\ Reported(<<>>)
    /\ Logged(IF StoreWrites(Fetched)
              THEN log_mem_write(AddW(R[rs1(Fetched)], imm_S(Fetched)),
                                 StoreValue(R, Fetched))
              ELSE <<>>, FALSE)

\* A branch that goes where the BTFNT predictor said it would.
ExecBranch_AsPredicted ==
    /\ Running(99)
    /\ LET i      == Fetched
           target == AddW(PC, imm_B(i))
           take   == BranchTake(funct3(i), R[rs1(i)], R[rs2(i)])
           pred   == BtfntPredTaken(target, PC)
       IN  /\ Retire(R, IF pred THEN target ELSE AddW(PC, 4), take,
                     BranchStats(stats, take, pred))
           /\ Reported(<<>>)
           /\ Logged(<<>>, take)
    /\ UNCHANGED <<stop, mem, output, phase>>

\* case 0x63: the predictors are scored, the condition alone sets next_pc.
ExecBranch ==
    /\ Running(99)
    /\ LET i      == Fetched
           target == AddW(PC, imm_B(i))
           take   == BranchTake(funct3(i), R[rs1(i)], R[rs2(i)])
       IN  /\ Retire(R, IF take THEN target ELSE AddW(PC, 4), take,
                     BranchStats(stats, take, BtfntPredTaken(target, PC)))
           /\ Reported(<<>>)
           /\ Logged(<<>>, take)
    /\ UNCHANGED <<stop, mem, output, phase>>

\* A jal whose link is taken from next_pc after the jump was set up.
ExecJal_LinkAfterTarget ==
    /\ Running(111)
    /\ Retire(WriteReg(R, rd(Fetched), AddW(AddW(PC, imm_J(Fetched)), 4)),
              AddW(PC, imm_J(Fetched)), FALSE, stats)
    /\ UNCHANGED <<stop, mem, output, phase>>
    /\ Reported(<<>>)
    /\ Logged(log_reg_write(rd(Fetched), AddW(PC, 4)), FALSE)

\* case 0x6f: R[rd] = current_pc + 4; next_pc = current_pc + imm_J.
ExecJal ==
    /\ Running(111)
    /\ Retire(WriteReg(R, rd(Fetched), AddW(PC, 4)),
              AddW(PC, imm_J(Fetched)), FALSE, stats)
    /\ UNCHANGED <<stop, mem, output, phase>>
    /\ Reported(<<>>)
    /\ Logged(log_reg_write(rd(Fetched), AddW(PC, 4)), FALSE)

\* A jalr that writes the link before it reads R[rs1].
ExecJalr_LinkBeforeTarget ==
    /\ Running(103)
    /\ LET Rl == WriteReg(R, rd(Fetched), AddW(PC, 4))
       IN  Retire(Rl, JalrTarget(Rl[rs1(Fetched)], imm_I(Fetched)), FALSE, stats)
    /\ UNCHANGED <<stop, mem, output, phase>>
    /\ Reported(<<>>)
    /\ Logged(log_reg_write(rd(Fetched), AddW(PC, 4)), FALSE)

\* case 0x67: t = (R[rs1] + imm_I) & ~1u; R[rd] = current_pc + 4; next_pc = t.
ExecJalr ==
    /\ Running(103)
    /\ Retire(WriteReg(R, rd(Fetched), AddW(PC, 4)),
              JalrTarget(R[rs1(Fetched)], imm_I(Fetched)), FALSE, stats)
    /\ UNCHANGED <<stop, mem, output, phase>>
    /\ Reported(<<>>)
    /\ Logged(log_reg_write(rd(Fetched), AddW(PC, 4)), FALSE)

ExecLui ==
    /\ Running(55)
    /\ Retire(WriteReg(R, rd(Fetched), imm_U(Fetched)), AddW(PC, 4), FALSE, stats)
    /\ UNCHANGED <<stop, mem, output, phase>>
    /\ Reported(<<>>)
    /\ Logged(log_reg_write(rd(Fetched), imm_U(Fetched)), FALSE)

ExecAuipc ==
    /\ Running(23)
    /\ Retire(WriteReg(R, rd(Fetched), AddW(PC, imm_U(Fetched))),
              AddW(PC, 4), FALSE, stats)
    /\ UNCHANGED <<stop, mem, output, phase>>
    /\ Reported(<<>>)
    /\ Logged(log_reg_write(rd(Fetched), AddW(PC, imm_U(Fetched))), FALSE)

\* ecall service 1: a0 = getchar(), EOF read as -1.
EcallGetchar ==
    /\ Running(115)
    /\ Fetched = ECALL
    /\ R[17] = 1
    /\ \E c \in GetcharResults :
          Retire(WriteReg(R, 10, c), AddW(PC, 4), FALSE, stats)
    /\ UNCHANGED <<stop, mem, output, phase>>
    /\ Reported(<<>>)
    /\ Logged(<<>>, FALSE)

\* ecall service 2: putchar(a0 & 0xff).
EcallPutchar ==
    /\ Running(115)
    /\ Fetched = ECALL
    /\ R[17] = 2
    /\ output' = Append(output, R[10] % 256)
    /\ Retire(R, AddW(PC, 4), FALSE, stats)
    /\ UNCHANGED <<stop, mem, phase>>
    /\ Reported(<<>>)
    /\ Logged(<<>>, FALSE)

\* ecall service a7, neither 1 nor 2: fprintf(stderr, "Unhandled ecall %u
\* at 0x%08x\n", a7, current_pc) unless a7 is 3 or 93.
EcallReports(a7, pc) ==
    IF a7 \in {3, 93} THEN <<>> ELSE <<(<<"Unhandled ecall", a7, pc>>)>>

\* An ecall that stops for service 93 only and goes on otherwise.
EcallStop_Only93 ==
    /\ Running(115)
    /\ Fetched = ECALL
    /\ R[17] \notin {1, 2}
    /\ stop' = (R[17] = 93)
    /\ Retire(R, AddW(PC, 4), FALSE, stats)
    /\ UNCHANGED <<mem, output, phase>>
    /\ Reported(EcallReports(R[17], PC))
    /\ Logged(<<>>, FALSE)

\* An ecall that stops the loop before the instruction is counted.
EcallStop_CountedAtCommit ==
    /\ Running(115)
    /\ Fetched = ECALL
    /\ R[17] \notin {1, 2}
    /\ stop' = TRUE
    /\ instruction' = Fetched
    /\ current_pc' = PC
    /\ branch_taken' = FALSE
    /\ trace' = Append(trace, <<PC, R, mem>>)
    /\ Reported(EcallReports(R[17], PC))
    /\ Logged(<<>>, FALSE)
    /\ UNCHANGED <<R, PC, instr_count, stats, mem, output, phase, log_file,
                   first_run>>

\* ecall service 3 or 93 (exit), and every other service (unhandled): stop.
EcallStop ==
    /\ Running(115)
    /\ Fetched = ECALL
    /\ R[17] \notin {1, 2}
    /\ stop' = TRUE
    /\ Retire(R, AddW(PC, 4), FALSE, stats)
    /\ UNCHANGED <<mem, output, phase>>
    /\ Reported(EcallReports(R[17], PC))
    /\ Logged(<<>>, FALSE)

\* A system word that is not ecall handled like an unknown opcode.
ExecSystemOther_Fatal ==
    /\ Running(115)
    /\ Fetched # ECALL
    /\ stop' = TRUE
    /\ Retire(R, AddW(PC, 4), FALSE, stats)
    /\ UNCHANGED <<mem, output, phase>>
    /\ Reported(<<(<<"Uhandled system instruction", Fetched, PC>>)>>)
    /\ Logged(<<>>, FALSE)

\* any other word of opcode 0x73: reported, nothing else.
ExecSystemOther ==
    /\ Running(115)
    /\ Fetched # ECALL
    /\ Retire(R, AddW(PC, 4), FALSE, stats)
    /\ UNCHANGED <<stop, mem, output, phase>>
    /\ Reported(<<(<<"Uhandled system instruction", Fetched, PC>>)>>)
    /\ Logged(<<>>, FALSE)

KnownOpcodes == {51, 19, 3, 35, 99, 111, 103, 55, 23, 115}

\* An unknown opcode that is reported without stop = 1.
ExecUnknown_Continue ==
    /\ phase = "loop"
    /\ ~stop
    /\ instr_count < MaxSteps
    /\ opcode(Fetched) \notin KnownOpcodes
    /\ Retire(R, AddW(PC, 4), FALSE, stats)
    /\ UNCHANGED <<stop, mem, output, phase>>
    /\ Reported(<<(<<"Unknown opcode", Fetched, PC>>)>>)
    /\ Logged(<<>>, FALSE)

\* default: unknown opcode, stop = 1.
ExecUnknown ==
    /\ phase = "loop"
    /\ ~stop
    /\ instr_count < MaxSteps
    /\ opcode(Fetched) \notin KnownOpcodes
    /\ stop' = TRUE
    /\ Retire(R, AddW(PC, 4), FALSE, stats)
    /\ UNCHANGED <<mem, output, phase>>
    /\ Reported(<<(<<"Unknown opcode", Fetched, PC>>)>>)
    /\ Logged(<<>>, FALSE)

\* The loop is left: stats.insns = instr_count; return stats.
Return ==
    /\ phase = "loop"
    /\ stop
    /\ stats' = [stats EXCEPT !.insns = instr_count]
    /\ phase' = "returned"
    /\ UNCHANGED <<R, PC, instr_count, stop, mem, output, instruction,
                   current_pc, branch_taken, log_file, log, stderr, trace,
                   first_run>>

Next ==
    \/ ExecRType
    \/ ExecIType
    \/ ExecLoad
    \/ ExecStore
    \/ ExecBranch
    \/ ExecJal
    \/ ExecJalr
    \/ ExecLui
    \/ ExecAuipc
    \/ EcallGetchar
    \/ EcallPutchar
    \/ EcallStop
    \/ ExecSystemOther
    \/ ExecUnknown
    \/ Return

Spec == Init /\ [][Next]_vars

\* simulate has returned from a run with a log sink and is called again at
\* the same start address, without a sink.  simulate does not touch *mem
\* before its first fetch: the caller passes the memory as the first run
\* left it, or the image of the first run loaded again.  The struct Stat of
\* the call lies on the words the stack holds by now.
Rerun ==
    /\ phase = "returned"
    /\ log_file
    /\ first_run = <<>>
    /\ first_run' = << [ states |-> Append(trace, <<PC, R, mem>>),
                         insns  |-> instr_count,
                         stats  |-> stats ] >>
    /\ R' = [r \in 0 .. 31 |-> 0]
    /\ PC' = Base
    /\ instr_count' = 0
    /\ \E f \in Frames : stats' = StatInit(f)
    /\ stop' = FALSE
    /\ \E m \in {mem, trace[1][3]} : mem' = m
    /\ output' = <<>>
    /\ instruction' = 0
    /\ current_pc' = 0
    /\ branch_taken' = FALSE
    /\ phase' = "loop"
    /\ log_file' = FALSE
    /\ log' = LogOpened(FALSE)
    /\ stderr' = LogDisabled(FALSE)
    /\ trace' = <<>>

NextPair ==
    \/ Next
    \/ Rerun

\* Pairs of runs at the same start address: the first with a log sink, the
\* second without.
InitPair == InitLogged(PairPrograms, {TRUE})

SpecPair == InitPair /\ [][NextPair]_vars

\* The runs of the programs made of jumps.
InitJump == InitWith(JumpPrograms)

SpecJump == InitJump /\ [][Next]_vars

\* The runs of the programs that divide.
InitDiv == InitWith(DivPrograms)

SpecDiv == InitDiv /\ [][Next]_vars

\* The runs of the programs that branch.
InitBranch == InitWith(BranchPrograms)

SpecBranch == InitBranch /\ [][Next]_vars

\* The runs of the programs with unsupported function-selects.
InitUnsupported == InitWith(UnsupportedPrograms)

SpecUnsupported == InitUnsupported /\ [][Next]_vars

\* The runs with a log sink.
InitDecode == InitLogged(DecodePrograms, {TRUE})

SpecDecode == InitDecode /\ [][Next]_vars

(***************************************************************************)
(* Properties                                                              *)
(***************************************************************************)
\* An iteration of the loop has just been made.
Stepped == instr_count' = instr_count + 1

\* C1: register 0 is zero before every fetch and after every retired
\* instruction, also after one whose destination field is 0.
C1_X0AlwaysZero == R[0] = 0

\* "add zero,a0,a0" has been retired with a0 = 5.
C1_Witness ==
    /\ instr_count > 0
    /\ instruction = EncR(0, 10, 10, 0, 0, 51)
    /\ R[10] = 5

\* C2: the program counter is a multiple of 4 at every fetch.
C2_PCAlignedAtFetch == (phase = "loop" /\ ~stop) => PC % 4 = 0

\* The long that holds the count n.
Count(n) == [stack |-> <<>>, plus |-> n]

\* v + n on a long.
LongPlus(v, n) == [v EXCEPT !.plus = @ + n]

\* Sum of the four buckets of a table-based predictor's counter.
Sum4(c) ==
    [ stack |-> <<c[0].stack, c[1].stack, c[2].stack, c[3].stack>>,
      plus  |-> c[0].plus + c[1].plus + c[2].plus + c[3].plus ]

\* The prediction counters of the four predictors.
PredictionCounts(st) ==
    <<Count(st.nt_predictions), Count(st.btfnt_predictions),
      Sum4(st.bimodal_predictions), Sum4(st.gshare_predictions)>>

\* Every prediction and misprediction counter of Stat.
PredictorCounters(st) ==
    <<st.nt_predictions, st.nt_mispredictions,
      st.btfnt_predictions, st.btfnt_mispredictions,
      st.bimodal_predictions, st.bimodal_mispredictions,
      st.gshare_predictions, st.gshare_mispredictions>>

\* The iteration being made fetches a conditional branch.
BranchStep == Stepped /\ opcode(instruction') = 99

\* C3: on every conditional branch each of the four predictors' prediction
\* counters (bimodal and gshare summed over their buckets) increases by
\* exactly one, and none of them changes on any other instruction.
C3_PredictionsCounted ==
    [][Stepped =>
         PredictionCounts(stats') =
            IF opcode(instruction') = 99
            THEN [k \in 1 .. 4 |-> LongPlus(PredictionCounts(stats)[k], 1)]
            ELSE PredictionCounts(stats)]_vars

\* a < b on uint32_t, compared half by half.
UnsignedLess(a, b) ==
    LET ah == (a \div 65536) % 65536
        bh == (b \div 65536) % 65536
    IN  ah < bh \/ (ah = bh /\ a % 65536 < b % 65536)

\* C4: on a conditional branch at A with target T = A + offset,
\* nt_mispredictions increases by one iff the branch is taken, and
\* btfnt_mispredictions increases by one iff (T < A, unsigned) differs from
\* the actual outcome.
C4_NtAndBtfnt ==
    [][BranchStep =>
         LET A     == current_pc'
             T     == AddW(A, imm_B(instruction'))
             taken == branch_taken'
         IN  /\ A = PC
             /\ taken = (PC' = T /\ (PC' # AddW(A, 4) \/
                    BranchTake(funct3(instruction'), R[rs1(instruction')],
                               R[rs2(instruction')])))
             /\ stats'.nt_mispredictions =
                   stats.nt_mispredictions + (IF taken THEN 1 ELSE 0)
             /\ stats'.btfnt_mispredictions =
                   stats.btfnt_mispredictions
                   + (IF UnsignedLess(T, A) # taken THEN 1 ELSE 0)]_vars

\* A taken branch to itself (predicted not-taken: one BTFNT misprediction)
\* has been retired, and so has a taken branch from 0x4 to 0xfffffffe.
C4_Witness ==
    /\ instr_count = 1
    /\ branch_taken
    /\ \/ instruction = EncB(0, 0, 0, 0)
       \/ (current_pc = 4 /\ PC = 0 - 2)
    /\ stats.nt_mispredictions = 1
    /\ stats.btfnt_mispredictions = 1

\* C5: on every conditional branch the bimodal and the gshare predictor each
\* tally the prediction in the bucket b of their indexed 2-bit counter
\* (value 0..3), predict taken iff b >= 2, and tally a misprediction in the
\* same bucket iff that prediction differs from the outcome.
C5_TablesTallied ==
    [][BranchStep =>
         /\ \E b \in 0 .. 3 :
              /\ stats'.bimodal_predictions =
                    [stats.bimodal_predictions EXCEPT ![b] = LongPlus(@, 1)]
              /\ stats'.bimodal_mispredictions =
                    [stats.bimodal_mispredictions EXCEPT
                        ![b] = LongPlus(@, IF (b >= 2) # branch_taken'
                                           THEN 1 ELSE 0)]
         /\ \E b \in 0 .. 3 :
              /\ stats'.gshare_predictions =
                    [stats.gshare_predictions EXCEPT ![b] = LongPlus(@, 1)]
              /\ stats'.gshare_mispredictions =
                    [stats.gshare_mispredictions EXCEPT
                        ![b] = LongPlus(@, IF (b >= 2) # branch_taken'
                                           THEN 1 ELSE 0)]]_vars

\* The longs p and m hold counts: p at most n, m at most p.
Tally(p, m, n) ==
    \E k \in 0 .. n : p = Count(k) /\ \E j \in 0 .. k : m = Count(j)

\* C6: the returned Stat holds counts of this run, on every exit path: insns
\* is the number of instructions fetched, and every bucket of the bimodal
\* and gshare counters lies between 0 and the number of branches executed
\* (so it is 0 when there was none), mispredictions within predictions.
C6_StatWellFormed ==
    phase = "returned" =>
        /\ stats.insns = instr_count
        /\ stats.btfnt_predictions = stats.nt_predictions
        /\ \A b \in 0 .. 3 :
              /\ Tally(stats.bimodal_predictions[b],
                       stats.bimodal_mispredictions[b], stats.nt_predictions)
              /\ Tally(stats.gshare_predictions[b],
                       stats.gshare_mispredictions[b], stats.nt_predictions)

\* The fetch about to be made yields a word with none of the ten opcodes.
UnknownFetch ==
    /\ phase = "loop"
    /\ ~stop
    /\ opcode(Fetched) \notin {51, 19, 3, 35, 99, 111, 103, 55, 23, 115}

\* C7: a word with an unknown opcode halts the loop: it changes no register,
\* no memory cell and no predictor counter; once the loop is halted nothing
\* is fetched any more and the Stat accumulated so far is what is returned.
C7_UnknownOpcodeHalts ==
    [][/\ (UnknownFetch /\ instr_count' # instr_count) =>
             /\ stop'
             /\ R' = R
             /\ mem' = mem
             /\ PredictorCounters(stats') = PredictorCounters(stats)
             /\ stats'.insns = instr_count + 1
       /\ stop =>
             /\ phase' = "returned"
             /\ instr_count' = instr_count
             /\ R' = R
             /\ mem' = mem
             /\ PredictorCounters(stats') = PredictorCounters(stats)
             /\ stats'.insns = instr_count]_vars

\* simulate has returned after 0xffffffff as the first word of a program
\* whose next word was never fetched.
C7_Witness ==
    /\ phase = "returned"
    /\ instruction = 0 - 1
    /\ current_pc = Base
    /\ instr_count = 1
    /\ stats.insns = 1

\* The fetch about to be made yields the bare trap instruction.
EcallFetch == phase = "loop" /\ ~stop /\ Fetched = 115

\* C8: ecall dispatches on register 17: 3, 93 and every value other than 1
\* and 2 halt the loop; 1 and 2 do not halt and continue at PC + 4; service 1
\* changes only register 10, to -1 or to a byte's unsigned value; service 2
\* changes no register.
C8_EcallDispatch ==
    [][(EcallFetch /\ instr_count' # instr_count) =>
         /\ R[17] \in {3, 93} => stop'
         /\ R[17] \notin {1, 2, 3, 93} => stop'
         /\ R[17] \in {1, 2} => (~stop' /\ phase' = "loop" /\ PC' = AddW(PC, 4))
         /\ R[17] = 1 =>
               /\ \A r \in 0 .. 31 : r # 10 => R'[r] = R[r]
               /\ R'[10] \in {0 - 1} \cup (0 .. 255)
         /\ R[17] = 2 => R' = R]_vars

\* Service 1 has returned the byte 0xff as 255 and the loop goes on.
C8_Witness ==
    /\ instr_count > 0
    /\ instruction = 115
    /\ R[17] = 1
    /\ R[10] = 255
    /\ ~stop
    /\ PC = AddW(current_pc, 4)

\* The fetch about to be made yields a system word that is not ecall.
SystemOtherFetch ==
    phase = "loop" /\ ~stop /\ opcode(Fetched) = 115 /\ Fetched # 115

\* C9: a system word other than ecall is a no-op that does not halt.
C9_SystemOtherIsNoOp ==
    [][(SystemOtherFetch /\ instr_count' # instr_count) =>
         /\ R' = R
         /\ mem' = mem
         /\ PredictorCounters(stats') = PredictorCounters(stats)
         /\ PC' = AddW(PC, 4)
         /\ instr_count' = instr_count + 1
         /\ stats'.insns = instr_count + 1
         /\ ~stop'
         /\ phase' = "loop"]_vars

\* ebreak has been retired and the loop is about to fetch the next word.
C9_Witness ==
    /\ instr_count > 0
    /\ instruction = EncI(1, 0, 0, 0, 115)
    /\ ~stop
    /\ phase = "loop"
    /\ PC = AddW(current_pc, 4)

\* addi a0,zero,5; addi a7,zero,93; ecall
ExitProgram ==
    <<EncI(5, 0, 0, 10, 19), EncI(93, 0, 0, 17, 19), 115>>

\* C10: run from its first instruction, ExitProgram halts after the third
\* instruction and the returned Stat has insns = 3 and every prediction and
\* misprediction counter 0.
C10_ExitProgramStat ==
    (phase = "returned" /\ \A i \in 1 .. 3 : memory_rd_w(mem, Base + 4 * (i - 1)) = ExitProgram[i]) =>
        /\ instr_count = 3
        /\ stats.insns = 3
        /\ PredictorCounters(stats) =
              <<0, 0, 0, 0,
                [b \in 0 .. 3 |-> Count(0)], [b \in 0 .. 3 |-> Count(0)],
                [b \in 0 .. 3 |-> Count(0)], [b \in 0 .. 3 |-> Count(0)]>>

\* The fetch about to be made yields a word of opcode op.
FetchOf(op) == phase = "loop" /\ ~stop /\ opcode(Fetched) = op

\* Every register but d keeps its value; d gets value, or stays 0 if d is 0.
OnlyRegWritten(d, value) ==
    \A r \in 0 .. 31 :
        R'[r] = IF r = 0 THEN 0 ELSE IF r = d THEN value ELSE R[r]

\* The J-type offset of a word, assembled from its bits 31, 19..12, 20, 30..21.
JOffset(i) ==
    (IF i < 0 THEN 0 - 1048576 ELSE 0)
    + ((i \div 4096) % 256) * 4096
    + ((i \div 1048576) % 2) * 2048
    + ((i \div 2097152) % 1024) * 2

\* C11: jal at address A with offset imm writes A + 4 into rd (register 0
\* stays 0), the next fetch is at A + imm, and no other register and no
\* memory cell changes.
C11_JalLinksAndJumps ==
    [][(FetchOf(111) /\ instr_count' # instr_count) =>
         /\ OnlyRegWritten(rd(Fetched), AddW(PC, 4))
         /\ PC' = AddW(PC, JOffset(Fetched))
         /\ mem' = mem
         /\ ~stop'
         /\ phase' = "loop"]_vars

\* "jal a0,.-8" at 0x4 has been retired: a0 = 8 and the next fetch is at
\* 0xfffffffc.
C11_Witness ==
    /\ instr_count = 1
    /\ instruction = EncJ(0 - 8, 10)
    /\ current_pc = 4
    /\ R[10] = 8
    /\ PC = 0 - 4
    /\ phase = "loop"

\* C12: jalr at address A sets the next program counter to R[rs1] + imm with
\* bit 0 cleared, R[rs1] being the value before the instruction (also when
\* rd = rs1), and writes A + 4 into rd.
C12_JalrUsesOldSource ==
    [][(FetchOf(103) /\ instr_count' # instr_count) =>
         LET t == AddW(R[rs1(Fetched)], sign_extend(Bits(Fetched, 20, 12), 12))
         IN  /\ PC' = AndW(t, 0 - 2)
             /\ OnlyRegWritten(rd(Fetched), AddW(PC, 4))
             /\ mem' = mem
             /\ ~stop']_vars

\* "jalr ra,8(ra)" at 0xc has been retired with ra = 0x8 before it: the next
\* fetch is at 0x10, not at 0x18, and ra = 0x10.
C12_Witness ==
    /\ instr_count > 1
    /\ instruction = EncI(8, 1, 0, 1, 103)
    /\ current_pc = 12
    /\ PC = 16
    /\ R[1] = 16
    /\ phase = "loop"

\* The fetch about to be made yields div, divu, rem or remu.
DivRemFetch == FetchOf(51) /\ funct7(Fetched) = 1 /\ funct3(Fetched) >= 4

\* The result the instruction set fixes for the edge cases of funct3 f3
\* (4 div, 5 divu, 6 rem, 7 remu) on dividend a and divisor b.
EdgeResult(f3, a, b) ==
    IF b = 0 THEN (IF f3 \in {4, 5} THEN 0 - 1 ELSE a)
    ELSE IF f3 = 4 THEN a ELSE 0

\* The operands are one of the edge cases of funct3 f3.
EdgeCase(f3, a, b) ==
    b = 0 \/ (f3 \in {4, 6} /\ a = INT32_MIN /\ b = 0 - 1)

\* C13: divide and remainder never halt the loop, continue at PC + 4, and
\* give the fixed results: x / 0 = 0xFFFFFFFF (signed and unsigned),
\* x % 0 = x (signed and unsigned), 0x80000000 / -1 = 0x80000000 and
\* 0x80000000 % -1 = 0.
C13_DivRemEdgeCases ==
    [][(DivRemFetch /\ instr_count' # instr_count) =>
         LET f3 == funct3(Fetched)
             a  == R[rs1(Fetched)]
             b  == R[rs2(Fetched)]
         IN  /\ ~stop'
             /\ phase' = "loop"
             /\ PC' = AddW(PC, 4)
             /\ mem' = mem
             /\ \A r \in 0 .. 31 : r # rd(Fetched) => R'[r] = R[r]
             /\ (EdgeCase(f3, a, b) /\ rd(Fetched) # 0) =>
                   R'[rd(Fetched)] = EdgeResult(f3, a, b)]_vars

\* "lui a0,0x80000; addi a1,zero,-1; div a2,a0,a1" has been run: a2 is
\* 0x80000000 and the loop goes on at the next word.
C13_Witness ==
    /\ instr_count = 3
    /\ instruction = EncR(1, 11, 10, 4, 12, 51)
    /\ R[10] = INT32_MIN
    /\ R[11] = 0 - 1
    /\ R[12] = INT32_MIN
    /\ PC = AddW(current_pc, 4)
    /\ ~stop

\* The register a name of regname stands for.
RegOf(name) == CHOOSE r \in 0 .. 31 : RegName(r) = name

RegRegMnemonics ==
    { "add", "sub", "sll", "slt", "sltu", "xor", "srl", "sra", "or", "and",
      "mul", "mulh", "mulhsu", "mulhu", "div", "divu", "rem", "remu" }

RegImmMnemonics ==
    { "addi", "slti", "sltiu", "xori", "ori", "andi", "slli", "srli", "srai" }

\* The value the instruction set gives the operation named mn on a and b.
Operation(mn, a, b) ==
    CASE mn \in {"add", "addi"}   -> AddW(a, b)
      [] mn = "sub"               -> SubW(a, b)
      [] mn \in {"sll", "slli"}   -> SllW(a, b % 32)
      [] mn \in {"slt", "slti"}   -> IF a < b THEN 1 ELSE 0
      [] mn \in {"sltu", "sltiu"} -> IF UnsignedLess(a, b) THEN 1 ELSE 0
      [] mn \in {"xor", "xori"}   -> XorW(a, b)
      [] mn \in {"srl", "srli"}   -> SrlW(a, b % 32)
      [] mn \in {"sra", "srai"}   -> SraW(a, b % 32)
      [] mn \in {"or", "ori"}     -> OrW(a, b)
      [] mn \in {"and", "andi"}   -> AndW(a, b)
      [] mn = "mul"               -> MulLoW(a, b)
      [] mn = "mulh"              -> MulH(a, b)
      [] mn = "mulhsu"            -> MulHSU(a, b)
      [] mn = "mulhu"             -> MulHU(a, b)
      [] mn = "div"               -> div_s(a, b)
      [] mn = "divu"              -> div_u(a, b)
      [] mn = "rem"               -> rem_s(a, b)
      [] mn = "remu"              -> rem_u(a, b)

\* The value the load named mn reads at addr.
Loaded(mn, m, addr) ==
    CASE mn = "lb"  -> sign_extend(memory_rd_b(m, addr), 8)
      [] mn = "lh"  -> sign_extend(memory_rd_h(m, addr), 16)
      [] mn = "lw"  -> memory_rd_w(m, addr)
      [] mn = "lbu" -> memory_rd_b(m, addr)
      [] mn = "lhu" -> memory_rd_h(m, addr)

\* The memory after the store named mn of value v at addr.
Stored(mn, m, addr, v) ==
    CASE mn = "sb" -> memory_wr_b(m, addr, v % 256)
      [] mn = "sh" -> memory_wr_h(m, addr, v % 65536)
      [] mn = "sw" -> memory_wr_w(m, addr, v)

\* The condition of the branch named mn on a and b.
Condition(mn, a, b) ==
    CASE mn = "beq"  -> a = b
      [] mn = "bne"  -> a # b
      [] mn = "blt"  -> a < b
      [] mn = "bge"  -> a >= b
      [] mn = "bltu" -> UnsignedLess(a, b)
      [] mn = "bgeu" -> ~UnsignedLess(a, b)

\* The step being made does what the rendered text t says: the operation of
\* its mnemonic on the registers and the immediate it prints; nothing at all
\* for "unknown".
DoesWhatIsRendered(t) ==
    LET mn == t[1]
    IN  CASE mn \in RegRegMnemonics ->
               /\ OnlyRegWritten(RegOf(t[2]),
                                 Operation(mn, R[RegOf(t[3])], R[RegOf(t[4])]))
               /\ mem' = mem
               /\ PC' = AddW(PC, 4)
          [] mn \in RegImmMnemonics ->
               /\ OnlyRegWritten(RegOf(t[2]), Operation(mn, R[RegOf(t[3])], t[4]))
               /\ mem' = mem
               /\ PC' = AddW(PC, 4)
          [] mn \in {"lb", "lh", "lw", "lbu", "lhu"} ->
               /\ OnlyRegWritten(RegOf(t[2]),
                                 Loaded(mn, mem, AddW(R[RegOf(t[4])], t[3])))
               /\ mem' = mem
               /\ PC' = AddW(PC, 4)
          [] mn \in {"sb", "sh", "sw"} ->
               /\ mem' = Stored(mn, mem, AddW(R[RegOf(t[4])], t[3]), R[RegOf(t[2])])
               /\ R' = R
               /\ PC' = AddW(PC, 4)
          [] mn \in {"beq", "bne", "blt", "bge", "bltu", "bgeu"} ->
               /\ PC' = IF Condition(mn, R[RegOf(t[2])], R[RegOf(t[3])])
                        THEN t[4] ELSE AddW(PC, 4)
               /\ R' = R
               /\ mem' = mem
          [] mn = "jal" ->
               /\ OnlyRegWritten(RegOf(t[2]), AddW(PC, 4))
               /\ PC' = t[3]
               /\ mem' = mem
          [] mn = "jalr" ->
               /\ OnlyRegWritten(RegOf(t[2]), AddW(PC, 4))
               /\ PC' = AndW(AddW(R[RegOf(t[4])], t[3]), 0 - 2)
               /\ mem' = mem
          [] mn \in {"lui", "auipc"} ->
               /\ OnlyRegWritten(RegOf(t[2]), t[3])
               /\ mem' = mem
               /\ PC' = AddW(PC, 4)
          [] mn = "ecall" -> mem' = mem
          [] mn = "unknown" -> R' = R /\ mem' = mem

\* The text rendered for the instruction of the step being made.
RenderedText == log'[Len(log')][5]

\* C14: the executor and the disassembler decode every word alike: the
\* executor performs the operation of the mnemonic the disassembler renders,
\* on the registers and with the immediate it renders, and performs no
\* operation for a word rendered as "unknown".
C14_DecodersAgree ==
    [][(log_file /\ instr_count' # instr_count) =>
           DoesWhatIsRendered(RenderedText)]_vars

\* The states <<PC, R, mem>> this run has passed through, the present one
\* last.
StatesSoFar == Append(trace, <<PC, R, mem>>)

\* What the first n of the states s show to have been read from stdin: a0
\* of the state after each "ecall" fetched with a7 = 1.
RECURSIVE InputRead(_, _)
InputRead(s, n) ==
    IF n <= 1 THEN <<>>
    ELSE LET before == s[n - 1]
             read   == /\ memory_rd_w(before[3], before[1]) = ECALL
                       /\ before[2][17] = 1
         IN  IF read THEN Append(InputRead(s, n - 1), s[n][2][10])
             ELSE InputRead(s, n - 1)

\* The run without a log sink started on the image the run with a log sink
\* started on, and has read from stdin what that run read.
SameImageAndInput ==
    LET logged == first_run[1].states
        n      == Len(StatesSoFar)
    IN  /\ StatesSoFar[1][3] = logged[1][3]
        /\ LET i == InputRead(StatesSoFar, n)
                j == InputRead(logged, Len(logged))
           IN  Len(i) <= Len(j) /\ i = SubSeq(j, 1, Len(i))

\* C15: a run without a log sink passes through the same sequence of
\* (program counter, registers, memory) states as the run with a log sink
\* on the same image, start address and input, halts at the same
\* instruction and returns the same instruction and predictor counts.
C15_LoggingDoesNotAlterExecution ==
    (first_run # <<>> /\ SameImageAndInput) =>
        LET logged == first_run[1]
        IN  /\ Len(StatesSoFar) <= Len(logged.states)
            /\ \A k \in 1 .. Len(StatesSoFar) :
                  StatesSoFar[k] = logged.states[k]
            /\ stop => instr_count = logged.insns
            /\ phase = "returned" => stats = logged.stats

\* The B-type offset of a word, assembled from its bits 31, 7, 30..25, 11..8.
BOffset(i) ==
    (IF i < 0 THEN 0 - 4096 ELSE 0)
    + ((i \div 128) % 2) * 2048
    + ((i \div 33554432) % 64) * 32
    + ((i \div 256) % 16) * 2

\* The predicate funct3 f3 selects, on a = R[rs1] and b = R[rs2].
Predicate(f3, a, b) ==
    CASE f3 = 0 -> a = b
      [] f3 = 1 -> a # b
      [] f3 = 4 -> a < b
      [] f3 = 5 -> ~(a < b)
      [] f3 = 6 -> UnsignedLess(a, b)
      [] f3 = 7 -> ~UnsignedLess(a, b)

\* C16: after a conditional branch at A with offset imm the next program
\* counter is A + imm if the predicate selected by funct3 holds on R[rs1]
\* and R[rs2], and A + 4 otherwise, whatever the predictors predicted and
\* whatever their counters hold; no register and no memory cell changes.
C16_OutcomeGovernsControlFlow ==
    [][(FetchOf(99) /\ instr_count' # instr_count) =>
         LET i == Fetched
         IN  /\ funct3(i) \in {0, 1, 4, 5, 6, 7} =>
                   PC' = IF Predicate(funct3(i), R[rs1(i)], R[rs2(i)])
                         THEN AddW(PC, BOffset(i))
                         ELSE AddW(PC, 4)
             /\ R' = R
             /\ mem' = mem
             /\ ~stop']_vars

\* "bltu a0,a7,.+8" has been retired with a0 = 0xffffffff and a7 = 1: not
\* taken (signed it would be); and "bge a0,a7,.-4", which BTFNT predicts
\* taken, has fallen through with a0 = -1 and a7 = 1.
C16_Witness ==
    /\ R[10] = 0 - 1
    /\ R[17] = 1
    /\ instr_count = 3
    /\ PC = AddW(current_pc, 4)
    /\ ~branch_taken
    /\ \/ instruction = EncB(8, 17, 10, 6)
       \/ (instruction = EncB(0 - 4, 17, 10, 5) /\ stats.btfnt_mispredictions = 1)

\* The word has a recognised opcode and a function-select the executor has
\* no case for.
Unsupported(i) ==
    \/ opcode(i) = 3 /\ funct3(i) \in {3, 6, 7}
    \/ opcode(i) = 35 /\ funct3(i) >= 3
    \/ opcode(i) = 51 /\ funct3(i) \in {0, 5} /\ funct7(i) \notin {0, 32, 1}

\* The iteration being made retires a word with an unsupported
\* function-select as a no-op: registers, memory and predictor counters are
\* unchanged, the program counter becomes PC + 4, insns increases by one and
\* the loop does not halt.
RetiredAsNoOp ==
    /\ R' = R
    /\ mem' = mem
    /\ PredictorCounters(stats') = PredictorCounters(stats)
    /\ PC' = AddW(PC, 4)
    /\ instr_count' = instr_count + 1
    /\ stats'.insns = stats.insns + 1
    /\ ~stop'
    /\ phase' = "loop"

\* An iteration is being made on a word with an unsupported function-select.
UnsupportedStep ==
    /\ phase = "loop"
    /\ ~stop
    /\ Unsupported(Fetched)
    /\ instr_count' # instr_count

\* C17 as claimed: a word with a recognised opcode and an unsupported
\* function-select is retired as a silent no-op: registers, memory and
\* predictor counters are unchanged, the program counter becomes PC + 4,
\* insns increases by one, the loop does not halt and nothing is written to
\* stderr.
C17_UnsupportedIsSilentNoOp ==
    [][UnsupportedStep => (RetiredAsNoOp /\ stderr' = stderr)]_vars

\* What stderr receives for an unsupported word i: "Unknown funct7" with
\* bits 31..25 of the word for an R-type word of funct3 0, nothing for any
\* other.
UnsupportedReport(i) ==
    IF i % 128 = 51 /\ (i \div 4096) % 8 = 0
    THEN <<(<<"Unknown funct7", (i \div 33554432) % 128>>)>>
    ELSE <<>>

\* C17 as amended: a word with a recognised opcode and an unsupported
\* function-select is retired as a no-op, not as a fatal decode failure:
\* registers, memory and predictor counters are unchanged, the program
\* counter becomes PC + 4, insns increases by one and the loop does not
\* halt; it is silent except that an R-type word of funct3 0 is reported on
\* stderr as "Unknown funct7" with its funct7.
C17_UnsupportedIsNoOp ==
    [][UnsupportedStep =>
         /\ RetiredAsNoOp
         /\ stderr' = stderr \o UnsupportedReport(Fetched)]_vars

\* "addi a7,zero,2", then the R-type word with funct3 0 and funct7 0x02 on
\* a1,a7,a7, then the R-type word with funct3 5 and funct7 0x7f on a1,a1,a7
\* have been retired: a1 is still 0, the loop goes on, and stderr holds the
\* report of the first of the two words only.
C17_Witness ==
    /\ instr_count = 3
    /\ instruction = EncR(127, 17, 11, 5, 11, 51)
    /\ memory_rd_w(mem, Base + 4) = EncR(2, 17, 17, 0, 11, 51)
    /\ stderr = <<(<<"Simulator logging disabled">>), (<<"Unknown funct7", 2>>)>>
    /\ R[17] = 2
    /\ R[11] = 0
    /\ PC = AddW(current_pc, 4)
    /\ stats.insns = 3
    /\ ~stop
    /\ phase = "loop"

\* The number of instruction words fetched so far in this run.
Fetches == Len(trace)

\* C18: the instruction is counted when it is fetched: instr_count and
\* Stat.insns equal the number of words fetched so far, so the returned
\* insns includes the instruction that caused the halt and is at least 1.
C18_CountedAtFetch ==
    /\ instr_count = Fetches
    /\ stats.insns = Fetches
    /\ stop =>
          /\ instr_count >= 1
          /\ trace[Fetches][1] = current_pc
          /\ memory_rd_w(trace[Fetches][3], current_pc) = instruction
          /\ \/ instruction = ECALL /\ R[17] \notin {1, 2}
             \/ opcode(instruction) \notin {51, 19, 3, 35, 99, 111, 103, 55, 23, 115}
    /\ phase = "returned" => (stop /\ stats.insns >= 1)

\* simulate has returned from a run halted by an unsupported ecall service
\* (a7 = 0) fetched as the very first word: insns is 1.
C18_Witness ==
    /\ phase = "returned"
    /\ instruction = ECALL
    /\ R[17] = 0
    /\ Fetches = 1
    /\ stats.insns = 1

====
